---- MODULE Spec2Model ----
(***************************************************************************)
(* The request pipeline of gradio_demo.py: the two handlers video_to_audio *)
(* and text_to_audio, run by worker threads of the UI toolkit over the     *)
(* process-wide seq_cfg and net, the output directory and the wall clock.  *)
(*                                                                         *)
(* Durations are whole seconds (the code takes floats >= 1).  A tensor is  *)
(* a record naming what it holds; Python's None is the record None.        *)
(*                                                                         *)
(* Spec lets the handlers of two threads interleave, one statement that    *)
(* touches shared state per step (the statements before the first such     *)
(* statement touch only locals and form one step).  SpecSerial starts a    *)
(* request only when no other is running.                                  *)
(***************************************************************************)
EXTENDS Integers, Sequences, FiniteSets, TLC

\* ---------------------------------------------------------------- bounds
\* Requests started in one run of the process when handlers interleave.
MaxRequests == 2
\* Requests started in one run of the process when they are handled one at a time.
MaxSerialRequests == 3
\* The wall clock runs from 0 to MaxTime, in ticks.
MaxTime == 2
\* Clock ticks in one second: strftime('%Y%m%d_%H%M%S') drops the rest.
TicksPerSecond == 2

\* The UI toolkit's threads that run handlers.
Workers == {1, 2}

None == [none |-> TRUE]

\* ------------------------------------------------------ program constants
output_dir == "./output/gradio"
MinDuration == 1
MinSeed == -1
DefaultDuration == 8
SamplingRate == 44100
SpectrogramFrameRate == 512
LatentDownsampleRate == 2
ClipFrameRate == 8
SyncFrameRate == 25
SyncNumFramesPerSegment == 16
SyncStepSize == 8
SyncDownsampleRate == 2

\* ----------------------------------------------------------------- inputs
\* Requested durations and video lengths, in seconds.
Durations == {MinDuration, MinDuration + 1}
Seeds == {MinSeed, 0}
\* What rng.seed() may draw from system entropy.
Entropy == {0, 1}
Prompts == {"rain on a window"}
NegativePrompts == {"music"}
NumSteps == {25}
\* Guidance strength in tenths (4.5).
CfgStrengths == {45}
Videos ==
    {[id |-> "corrupt", ok |-> FALSE, length_sec |-> 0]}
    \cup {[id |-> "clip", ok |-> TRUE, length_sec |-> n] : n \in Durations}

TextArgs ==
    [prompt : Prompts, negative_prompt : NegativePrompts, seed : Seeds,
     num_steps : NumSteps, cfg_strength : CfgStrengths, duration : Durations]
VideoArgs ==
    [video : Videos, prompt : Prompts, negative_prompt : NegativePrompts,
     seed : Seeds, num_steps : NumSteps, cfg_strength : CfgStrengths,
     duration : Durations]
ArgsOf(k) == IF k = "video_to_audio" THEN VideoArgs ELSE TextArgs
Kinds == {"video_to_audio", "text_to_audio"}

\* ------------------------------------------------------------------ state
VARIABLES
    seq_cfg,      \* the shared SequenceConfig: duration, sampling_rate
    net,          \* the sequence lengths last pushed into net
    dir_exists,   \* whether output_dir exists
    files,        \* the files under output_dir: path -> content
    now,          \* the wall clock when it was last read, in ticks
    pc,           \* each worker's position in its handler
    kind,         \* the handler each worker runs
    args,         \* that call's arguments
    loc,          \* that call's local variables
    rid,          \* the number of the request each worker serves (0: none)
    nstarted,     \* requests started so far
    trace,        \* the stages the worker's request has entered, in order
    ncompleted,   \* requests that returned a path so far
    memo          \* one earlier generate call, kept to compare later calls with

vars == <<seq_cfg, net, dir_exists, files, now, pc, kind, args, loc, rid,
          nstarted, trace, ncompleted, memo>>

Min(a, b) == IF a <= b THEN a ELSE b
CeilDiv(a, b) == (a + b - 1) \div b
IsPrefix(s, t) == Len(s) <= Len(t) /\ s = SubSeq(t, 1, Len(s))
Count(s, x) == Cardinality({i \in 1..Len(s) : s[i] = x})

\* -------------------------------------------------- SequenceConfig, net
latent_seq_len(cfg) ==
    CeilDiv(cfg.duration * cfg.sampling_rate,
            SpectrogramFrameRate * LatentDownsampleRate)

clip_seq_len(cfg) == cfg.duration * ClipFrameRate

sync_seq_len(cfg) ==
    LET num_frames == cfg.duration * SyncFrameRate
        num_segments == (num_frames - SyncNumFramesPerSegment) \div SyncStepSize + 1
    IN  (num_segments * SyncNumFramesPerSegment) \div SyncDownsampleRate

\* The three lengths of a configuration, as update_seq_lengths receives them
\* when nothing changes the configuration between the three reads.
SeqLensOf(cfg) ==
    [latent_seq_len |-> latent_seq_len(cfg),
     clip_seq_len |-> clip_seq_len(cfg),
     sync_seq_len |-> sync_seq_len(cfg)]

\* ------------------------------------------------------------ collaborators
\* load_video: the frames of the first duration_sec seconds, and the duration
\* clipped to the video's length.
load_video(video, duration_sec) ==
    LET d == Min(duration_sec, video.length_sec)
    IN  [video |-> video.id,
         clip_frames |-> [src |-> video.id, fps |-> ClipFrameRate, n |-> ClipFrameRate * d],
         sync_frames |-> [src |-> video.id, fps |-> SyncFrameRate, n |-> SyncFrameRate * d],
         duration_sec |-> d]

\* tensor.unsqueeze(0): a batch of one.
unsqueeze(t) == [batch |-> <<t>>]

\* generate: a deterministic function of what it is handed and of the sequence
\* lengths it finds in net when it starts and while it runs.
generate(gen_in, seq_during) == <<[in |-> gen_in, seq_during |-> seq_during]>>

\* datetime.now().strftime('%Y%m%d_%H%M%S'): the clock cut to whole seconds.
strftime(t) == t \div TicksPerSecond

Suffix(k) == IF k = "video_to_audio" THEN ".mp4" ELSE ".flac"

\* output_dir / f'{current_time_string}{suffix}'
SavePath(time_string, k) ==
    [parent |-> output_dir, stem |-> time_string, suffix |-> Suffix(k)]

\* ------------------------------------------------------------------- init
InitLoc ==
    [rng |-> None, fm |-> None, video_info |-> None, clip_frames |-> None,
     sync_frames |-> None, duration |-> 0, gen_in |-> None, audio |-> None,
     time_string |-> -1,
     save_path |-> None, result |-> None, failed_at |-> "none"]

Init ==
    /\ seq_cfg = [duration |-> DefaultDuration, sampling_rate |-> SamplingRate]
    /\ net = SeqLensOf([duration |-> DefaultDuration, sampling_rate |-> SamplingRate])
    /\ dir_exists \in BOOLEAN
    /\ files = <<>>
    /\ now = 0
    /\ pc = [w \in Workers |-> "idle"]
    /\ kind = [w \in Workers |-> "none"]
    /\ args = [w \in Workers |-> None]
    /\ loc = [w \in Workers |-> InitLoc]
    /\ rid = [w \in Workers |-> 0]
    /\ nstarted = 0
    /\ trace = [w \in Workers |-> <<>>]
    /\ ncompleted = 0
    /\ memo = None

\* ---------------------------------------------------------------- actions
Goto(w, p) == pc' = [pc EXCEPT ![w] = p]
Did(w, stage) == trace' = [trace EXCEPT ![w] = Append(@, stage)]

\* The UI toolkit hands a request to a free worker (the threads are alike: the
\* first free one).
Start(w, k, a) ==
    /\ pc[w] = "idle"
    /\ \A v \in Workers : v < w => pc[v] # "idle"
    /\ nstarted' = nstarted + 1
    /\ rid' = [rid EXCEPT ![w] = nstarted + 1]
    /\ kind' = [kind EXCEPT ![w] = k]
    /\ args' = [args EXCEPT ![w] = a]
    /\ loc' = [loc EXCEPT ![w] = [InitLoc EXCEPT !.duration = a.duration]]
    /\ trace' = [trace EXCEPT ![w] = <<>>]
    /\ Goto(w, "normalize")
    /\ UNCHANGED <<seq_cfg, net, dir_exists, files, now, ncompleted, memo>>

\* Mutant: the generator is seeded from system entropy whatever the seed.
RngSeedsFromEntropy(w) == Entropy

\* if seed >= 0: rng.manual_seed(seed) else: rng.seed()
RngSeeds(w) == IF args[w].seed >= 0 THEN {args[w].seed} ELSE Entropy

\* Mutant: the requested duration is kept after the decode.
DurationAsRequested(w, video_info) == loc[w].duration

\* duration = video_info.duration_sec
DurationAfterDecode(w, video_info) == video_info.duration_sec

\* Mutant: the text handler decodes a placeholder video for its frames.
TextFramesDecoded ==
    unsqueeze(load_video([id |-> "blank", ok |-> TRUE, length_sec |-> MinDuration],
                         MinDuration).clip_frames)

\* clip_frames = sync_frames = None
TextFrames == None

\* Input normalisation, which touches nothing shared.  Both handlers:
\*   rng = torch.Generator(); manual_seed(seed) or seed(); fm = FlowMatching(...)
\* video_to_audio: video_info = load_video(video, duration) and the four lines
\*   after it; a video that does not decode raises.
\* text_to_audio: clip_frames = sync_frames = None
Normalize(w) ==
    /\ pc[w] = "normalize"
    /\ \E r \in RngSeeds(w) :
          LET rng == [state |-> r]
              fm == [min_sigma |-> 0, inference_mode |-> "euler",
                     num_steps |-> args[w].num_steps]
          IN  \/ /\ kind[w] = "video_to_audio"
                 /\ args[w].video.ok
                 /\ LET video_info == load_video(args[w].video, loc[w].duration)
                    IN  loc' = [loc EXCEPT
                                  ![w].rng = rng,
                                  ![w].fm = fm,
                                  ![w].video_info = video_info,
                                  ![w].duration = DurationAfterDecode(w, video_info),
                                  ![w].clip_frames = unsqueeze(video_info.clip_frames),
                                  ![w].sync_frames = unsqueeze(video_info.sync_frames)]
                 /\ Goto(w, "cfg")
                 /\ trace' = [trace EXCEPT ![w] = @ \o <<"seed", "decode">>]
              \/ /\ kind[w] = "video_to_audio"
                 /\ ~args[w].video.ok
                 /\ loc' = [loc EXCEPT ![w].rng = rng, ![w].fm = fm,
                                       ![w].failed_at = "decode"]
                 /\ Goto(w, "failed")
                 /\ trace' = [trace EXCEPT ![w] = @ \o <<"seed", "decode">>]
              \/ /\ kind[w] = "text_to_audio"
                 /\ loc' = [loc EXCEPT ![w].rng = rng, ![w].fm = fm,
                                       ![w].clip_frames = TextFrames,
                                       ![w].sync_frames = TextFrames]
                 /\ Goto(w, "cfg")
                 /\ Did(w, "seed")
    /\ UNCHANGED <<seq_cfg, net, dir_exists, files, now, kind, args, rid, nstarted,
                   ncompleted, memo>>

\* Mutant: the assignment waits while another request configures or generates.
SetDurationLocked(w) ==
    /\ pc[w] = "cfg"
    /\ \A v \in Workers \ {w} : pc[v] \notin {"update", "generate", "generating"}
    /\ seq_cfg' = [seq_cfg EXCEPT !.duration = loc[w].duration]
    /\ Goto(w, "update")
    /\ Did(w, "set_duration")
    /\ UNCHANGED <<net, dir_exists, files, now, kind, args, loc, rid, nstarted,
                   ncompleted, memo>>

\* Mutant: the handler goes on to generate without net.update_seq_lengths.
SetDurationSkipsUpdate(w) ==
    /\ pc[w] = "cfg"
    /\ seq_cfg' = [seq_cfg EXCEPT !.duration = loc[w].duration]
    /\ Goto(w, "generate")
    /\ Did(w, "set_duration")
    /\ UNCHANGED <<net, dir_exists, files, now, kind, args, loc, rid, nstarted,
                   ncompleted, memo>>

\* seq_cfg.duration = duration
SetDuration(w) ==
    /\ pc[w] = "cfg"
    /\ seq_cfg' = [seq_cfg EXCEPT !.duration = loc[w].duration]
    /\ Goto(w, "update")
    /\ Did(w, "set_duration")
    /\ UNCHANGED <<net, dir_exists, files, now, kind, args, loc, rid, nstarted,
                   ncompleted, memo>>

\* Mutant: the lengths are computed and not pushed into net.
UpdateSeqLengthsDropped(w) ==
    /\ pc[w] = "update"
    /\ net' = net
    /\ Goto(w, "generate")
    /\ Did(w, "update_seq_lengths")
    /\ UNCHANGED <<seq_cfg, dir_exists, files, now, kind, args, loc, rid, nstarted,
                   ncompleted, memo>>

\* net.update_seq_lengths(seq_cfg.latent_seq_len, seq_cfg.clip_seq_len,
\* seq_cfg.sync_seq_len): one statement, taken as one step.
UpdateSeqLengths(w) ==
    /\ pc[w] = "update"
    /\ net' = [latent_seq_len |-> latent_seq_len(seq_cfg),
               clip_seq_len |-> clip_seq_len(seq_cfg),
               sync_seq_len |-> sync_seq_len(seq_cfg)]
    /\ Goto(w, "generate")
    /\ Did(w, "update_seq_lengths")
    /\ UNCHANGED <<seq_cfg, dir_exists, files, now, kind, args, loc, rid, nstarted,
                   ncompleted, memo>>

\* The call generate(clip_frames, sync_frames, [prompt], negative_text=..., ...):
\* what it is handed, and the sequence lengths it finds in net on entry.
GenerateBegin(w) ==
    /\ pc[w] = "generate"
    /\ loc' = [loc EXCEPT ![w].gen_in =
                  [clip_frames |-> loc[w].clip_frames,
                   sync_frames |-> loc[w].sync_frames,
                   text |-> <<args[w].prompt>>,
                   negative_text |-> <<args[w].negative_prompt>>,
                   fm |-> loc[w].fm,
                   rng |-> loc[w].rng,
                   cfg_strength |-> args[w].cfg_strength,
                   seq_on_entry |-> net]]
    /\ Goto(w, "generating")
    /\ Did(w, "generate")
    /\ UNCHANGED <<seq_cfg, net, dir_exists, files, now, kind, args, rid, nstarted,
                   ncompleted, memo>>

\* Mutant: a generate call that raised is made once more.
GenerateEndRetry(w) ==
    /\ pc[w] = "generating"
    /\ \/ /\ loc' = [loc EXCEPT ![w].audio = generate(loc[w].gen_in, net)[1]]
          /\ Goto(w, "stamp")
       \/ /\ Count(trace[w], "generate") < 2
          /\ loc' = loc
          /\ Goto(w, "generate")
       \/ /\ Count(trace[w], "generate") >= 2
          /\ loc' = [loc EXCEPT ![w].failed_at = "generate"]
          /\ Goto(w, "failed")
    /\ UNCHANGED <<seq_cfg, net, dir_exists, files, now, kind, args, rid, nstarted,
                   trace, ncompleted, memo>>

\* Mutant: a generate call that raised puts the default configuration back.
GenerateEndRollback(w) ==
    /\ pc[w] = "generating"
    /\ \/ /\ loc' = [loc EXCEPT ![w].audio = generate(loc[w].gen_in, net)[1]]
          /\ Goto(w, "stamp")
          /\ UNCHANGED <<seq_cfg, net>>
       \/ /\ loc' = [loc EXCEPT ![w].failed_at = "generate"]
          /\ Goto(w, "failed")
          /\ seq_cfg' = [seq_cfg EXCEPT !.duration = DefaultDuration]
          /\ net' = SeqLensOf([seq_cfg EXCEPT !.duration = DefaultDuration])
    /\ UNCHANGED <<dir_exists, files, now, kind, args, rid, nstarted, trace,
                   ncompleted, memo>>

\* generate returns (audio = audios.float().cpu()[0]) or raises.
GenerateEnd(w) ==
    /\ pc[w] = "generating"
    /\ \/ /\ loc' = [loc EXCEPT ![w].audio = generate(loc[w].gen_in, net)[1]]
          /\ Goto(w, "stamp")
          /\ UNCHANGED trace
       \/ /\ loc' = [loc EXCEPT ![w].failed_at = "generate"]
          /\ Goto(w, "failed")
          /\ UNCHANGED trace
    /\ UNCHANGED <<seq_cfg, net, dir_exists, files, now, kind, args, rid, nstarted,
                   ncompleted, memo>>

\* An observer of serialized runs keeps one seeded generate call that returned.
Remember(w) ==
    /\ pc[w] = "stamp"
    /\ memo = None
    /\ args[w].seed >= 0
    /\ memo' = [rid |-> rid[w], kind |-> kind[w], args |-> args[w],
                gen_in |-> loc[w].gen_in, audio |-> loc[w].audio]
    /\ UNCHANGED <<seq_cfg, net, dir_exists, files, now, pc, kind, args, loc, rid,
                   nstarted, trace, ncompleted>>

\* current_time_string = datetime.now().strftime('%Y%m%d_%H%M%S'): the clock has
\* moved on by any amount since it was last read.
Stamp(w) ==
    /\ pc[w] = "stamp"
    /\ \E t \in now..MaxTime :
          /\ now' = t
          /\ loc' = [loc EXCEPT ![w].time_string = strftime(t)]
    /\ Goto(w, "mkdir")
    /\ Did(w, "timestamp")
    /\ UNCHANGED <<seq_cfg, net, dir_exists, files, kind, args, rid, nstarted,
                   ncompleted, memo>>

\* Mutant: the directory is not created.
MkdirSkipped(w) ==
    /\ pc[w] = "mkdir"
    /\ dir_exists' = dir_exists
    /\ loc' = [loc EXCEPT ![w].save_path = SavePath(loc[w].time_string, kind[w])]
    /\ Goto(w, "write")
    /\ Did(w, "mkdir")
    /\ UNCHANGED <<seq_cfg, net, files, now, kind, args, rid, nstarted, ncompleted, memo>>

\* output_dir.mkdir(exist_ok=True, parents=True); save_path = output_dir / name
Mkdir(w) ==
    /\ pc[w] = "mkdir"
    /\ dir_exists' = TRUE
    /\ loc' = [loc EXCEPT ![w].save_path = SavePath(loc[w].time_string, kind[w])]
    /\ Goto(w, "write")
    /\ Did(w, "mkdir")
    /\ UNCHANGED <<seq_cfg, net, files, now, kind, args, rid, nstarted, ncompleted, memo>>

\* What make_video / torchaudio.save leave at the path.
Artifact(w, complete) ==
    [by |-> rid[w],
     format |-> IF kind[w] = "video_to_audio" THEN "mp4" ELSE "flac",
     sampling_rate |-> seq_cfg.sampling_rate,
     complete |-> complete]

\* Mutant: an artifact already at the path is kept.
WriteOutputKeepsExisting(w) ==
    /\ pc[w] = "write"
    /\ \/ /\ dir_exists
          /\ files' = files @@ (loc[w].save_path :> Artifact(w, TRUE))
          /\ ncompleted' = ncompleted + 1
          /\ loc' = [loc EXCEPT ![w].result = loc[w].save_path]
          /\ Goto(w, "done")
          /\ Did(w, "write")
       \/ /\ UNCHANGED files
          /\ loc' = [loc EXCEPT ![w].failed_at = "write"]
          /\ Goto(w, "failed")
          /\ Did(w, "write")
          /\ UNCHANGED ncompleted
    /\ UNCHANGED <<seq_cfg, net, dir_exists, now, kind, args, rid, nstarted, memo>>

\* make_video(video_info, path, audio, sampling_rate=...) or
\* torchaudio.save(path, audio.unsqueeze(0), sampling_rate), then return path;
\* a write that raises leaves nothing or a partial file.
WriteOutput(w) ==
    /\ pc[w] = "write"
    /\ \/ /\ dir_exists
          /\ files' = (loc[w].save_path :> Artifact(w, TRUE)) @@ files
          /\ ncompleted' = ncompleted + 1
          /\ loc' = [loc EXCEPT ![w].result = loc[w].save_path]
          /\ Goto(w, "done")
          /\ Did(w, "write")
       \/ /\ \/ UNCHANGED files
             \/ /\ dir_exists
                /\ files' = (loc[w].save_path :> Artifact(w, FALSE)) @@ files
          /\ loc' = [loc EXCEPT ![w].failed_at = "write"]
          /\ Goto(w, "failed")
          /\ Did(w, "write")
          /\ UNCHANGED ncompleted
    /\ UNCHANGED <<seq_cfg, net, dir_exists, now, kind, args, rid, nstarted, memo>>

\* The UI toolkit takes the returned path or the exception; the worker is free.
Finish(w) ==
    /\ pc[w] \in {"done", "failed"}
    /\ Goto(w, "idle")
    /\ kind' = [kind EXCEPT ![w] = "none"]
    /\ args' = [args EXCEPT ![w] = None]
    /\ loc' = [loc EXCEPT ![w] = InitLoc]
    /\ rid' = [rid EXCEPT ![w] = 0]
    /\ trace' = [trace EXCEPT ![w] = <<>>]
    /\ UNCHANGED <<seq_cfg, net, dir_exists, files, now, nstarted, ncompleted, memo>>

\* One statement of a handler.
Step(w) ==
    \/ Normalize(w)
    \/ SetDuration(w)
    \/ UpdateSeqLengths(w)
    \/ GenerateBegin(w)
    \/ GenerateEnd(w)
    \/ Stamp(w)
    \/ Mkdir(w)
    \/ WriteOutput(w)
    \/ Finish(w)

\* Handlers run on the toolkit's threads with no lock: statements interleave.
\* The interleavings are explored for seeded requests: the seed reaches nothing
\* but the request's own rng.
InterleavedArgs(k) == {a \in ArgsOf(k) : a.seed >= 0}

Next ==
    \/ /\ nstarted < MaxRequests
       /\ \E w \in Workers, k \in Kinds : \E a \in InterleavedArgs(k) : Start(w, k, a)
    \/ \E w \in Workers : Step(w)

Spec == Init /\ [][Next]_vars

\* Requests handled one at a time: a request starts only when no other runs.
StartSerial(w, k, a) ==
    /\ \A v \in Workers : pc[v] = "idle"
    /\ Start(w, k, a)

NextSerial ==
    \/ /\ nstarted < MaxSerialRequests
       /\ \E w \in Workers, k \in Kinds : \E a \in ArgsOf(k) : StartSerial(w, k, a)
    \/ \E w \in Workers : Step(w)
    \/ \E w \in Workers : Remember(w)

SpecSerial == Init /\ [][NextSerial]_vars

\* ------------------------------------------------------------ vocabulary
VideoStages ==
    <<"seed", "decode", "set_duration", "update_seq_lengths", "generate",
      "timestamp", "mkdir", "write">>
TextStages == SelectSeq(VideoStages, LAMBDA st : st # "decode")
StagesOf(k) == IF k = "video_to_audio" THEN VideoStages ELSE TextStages

Busy(w) == pc[w] # "idle"

\* The duration the decoder resolves for a video request; the requested one for
\* a text request.
ResolvedDuration(w) ==
    IF kind[w] = "video_to_audio"
    THEN load_video(args[w].video, args[w].duration).duration_sec
    ELSE args[w].duration

LensFor(d) == SeqLensOf([duration |-> d, sampling_rate |-> SamplingRate])

\* ------------------------------------------------------------------ claims

\* C1: with requests handled one at a time, whenever generate is invoked (and
\* while it runs) seq_cfg.duration is the current request's resolved duration and
\* net holds the sequence lengths derived from it, never an earlier request's.
C1_GenerateSeesOwnConfig ==
    \A w \in Workers :
        pc[w] \in {"generate", "generating"} =>
            /\ seq_cfg.duration = ResolvedDuration(w)
            /\ net = LensFor(ResolvedDuration(w))
            /\ pc[w] = "generating" =>
                  loc[w].gen_in.seq_on_entry = LensFor(ResolvedDuration(w))

\* A generate call runs after an earlier request ran with other sequence lengths.
C1_Witness ==
    \E w \in Workers :
        /\ pc[w] = "generating"
        /\ memo # None
        /\ memo.rid < rid[w]
        /\ memo.gen_in.seq_on_entry # loc[w].gen_in.seq_on_entry

\* C2: no lock guards the shared configuration: a request at the assignment of
\* seq_cfg.duration or at net.update_seq_lengths is never made to wait, whatever
\* the other requests are doing (the corrupted generate call is C2_Corrupted).
C2_NoLock ==
    \A w \in Workers :
        /\ pc[w] = "cfg" => ENABLED SetDuration(w)
        /\ pc[w] = "update" => ENABLED UpdateSeqLengths(w)

\* One request's generate call runs while seq_cfg.duration and net's sequence
\* lengths are those of another request of a different resolved duration.
C2_Corrupted ==
    \E v \in Workers, w \in Workers :
        /\ v # w
        /\ pc[v] = "generating"
        /\ Busy(w)
        /\ ResolvedDuration(v) # ResolvedDuration(w)
        /\ loc[v].gen_in.seq_on_entry = LensFor(ResolvedDuration(v))
        /\ seq_cfg.duration = ResolvedDuration(w)
        /\ net = LensFor(ResolvedDuration(w))
        /\ net # LensFor(ResolvedDuration(v))

\* C3: with requests handled one at a time, a call with seed >= 0 hands generate
\* the same inputs, and gets the same waveform, as any earlier call of the same
\* handler with the same arguments, whatever ran in between.
C3_SameArgsSameWaveform ==
    \A w \in Workers :
        (/\ memo # None
         /\ loc[w].gen_in # None
         /\ kind[w] = memo.kind
         /\ args[w] = memo.args)
        => /\ loc[w].gen_in = memo.gen_in
           /\ loc[w].audio # None => loc[w].audio = memo.audio

\* A seeded call is repeated after another request ran in between, and its
\* waveform is the remembered one.
C3_Witness ==
    \E w \in Workers :
        /\ memo # None
        /\ rid[w] >= memo.rid + 2
        /\ kind[w] = memo.kind
        /\ args[w] = memo.args
        /\ loc[w].audio = memo.audio

\* C4: text_to_audio never decodes a video and hands generate no frames; only
\* video_to_audio decodes, and only it muxes a video.
C4_TextNeverDecodes ==
    /\ \A w \in Workers :
          /\ kind[w] = "text_to_audio" =>
                /\ Count(trace[w], "decode") = 0
                /\ loc[w].video_info = None
                /\ loc[w].gen_in # None =>
                      /\ loc[w].gen_in.clip_frames = None
                      /\ loc[w].gen_in.sync_frames = None
          /\ Count(trace[w], "decode") > 0 => kind[w] = "video_to_audio"
    /\ \A p \in DOMAIN files : files[p].format = "mp4" <=> p.suffix = ".mp4"

\* A text request is inside generate, called with no frames.
C4_Witness ==
    \E w \in Workers :
        /\ kind[w] = "text_to_audio"
        /\ pc[w] = "generating"
        /\ loc[w].gen_in.clip_frames = None
        /\ loc[w].gen_in.sync_frames = None

\* C5: a request that returns wrote exactly one artifact, at
\* output_dir/<second of the clock read after generate><.mp4 or .flac>, and
\* returns that path; output_dir exists whenever a write is attempted, whether
\* or not it existed when the process started.
C5_State ==
    \A w \in Workers :
        /\ pc[w] = "write" => dir_exists
        /\ pc[w] = "done" =>
              /\ dir_exists
              /\ loc[w].result = loc[w].save_path
              /\ loc[w].result.parent = output_dir
              /\ loc[w].result.stem = loc[w].time_string
              /\ loc[w].result.suffix =
                    (IF kind[w] = "video_to_audio" THEN ".mp4" ELSE ".flac")
              /\ Count(trace[w], "write") = 1
              /\ trace[w] = StagesOf(kind[w])

C5_Step ==
    /\ \A w \in Workers :
          /\ (pc[w] = "stamp" /\ pc'[w] = "mkdir") =>
                /\ Count(trace[w], "generate") = 1
                /\ now' >= now
                /\ loc'[w].time_string = now' \div TicksPerSecond
          /\ (pc[w] = "write" /\ pc'[w] = "done") =>
                /\ ncompleted' = ncompleted + 1
                /\ DOMAIN files' = DOMAIN files \cup {loc'[w].result}
                /\ files'[loc'[w].result].by = rid[w]
                /\ files'[loc'[w].result].complete
                /\ \A p \in DOMAIN files :
                      p # loc'[w].result => files'[p] = files[p]
    /\ files' # files => \E w \in Workers : pc[w] = "write" /\ pc'[w] # "write"
    /\ dir_exists => dir_exists'

\* C5: in every state C5_State holds, and every step satisfies C5_Step: a request
\* that returns wrote exactly one artifact, in the existing output_dir, at the
\* timestamped path it returns.
C5_OneArtifactPerRequest == []C5_State /\ [][C5_Step]_vars

\* A request has returned the path of the complete artifact it wrote.
C5_Witness ==
    \E w \in Workers :
        /\ pc[w] = "done"
        /\ loc[w].result \in DOMAIN files
        /\ files[loc[w].result].by = rid[w]
        /\ files[loc[w].result].complete

C7_State ==
    \A w \in Workers :
        /\ Count(trace[w], "generate") <= 1
        /\ Count(trace[w], "decode") <= 1
        /\ Count(trace[w], "write") <= 1
        /\ loc[w].failed_at # "none" => pc[w] = "failed"
        /\ pc[w] = "failed" =>
              /\ loc[w].result = None
              /\ loc[w].failed_at \in {"decode", "generate", "write"}
              /\ trace[w][Len(trace[w])] = loc[w].failed_at
              /\ IsPrefix(trace[w], StagesOf(kind[w]))
              /\ loc[w].failed_at \in {"decode", "generate"} =>
                    /\ Count(trace[w], "write") = 0
                    /\ \A p \in DOMAIN files : files[p].by # rid[w]

C7_Step ==
    \A w \in Workers :
        pc[w] = "failed" =>
            /\ pc'[w] \in {"failed", "idle"}
            /\ pc'[w] = "failed" => trace'[w] = trace[w] /\ loc'[w] = loc[w]
            /\ pc'[w] = "idle" =>
                  UNCHANGED <<seq_cfg, net, dir_exists, files, now, ncompleted>>

\* C7: in every state C7_State holds, and every step satisfies C7_Step: a failure
\* in load_video, generate or the write ends the request with nothing returned,
\* nothing retried and no later stage.
C7_FailureAborts == []C7_State /\ [][C7_Step]_vars

\* A request's generate call has raised.
C7_Witness ==
    \E w \in Workers :
        /\ pc[w] = "failed"
        /\ loc[w].failed_at = "generate"
        /\ Count(trace[w], "generate") = 1
        /\ loc[w].result = None

\* C8: the stages a request has entered are always an initial part of
\* seed, (decode,) set_duration, update_seq_lengths, generate, timestamp, mkdir,
\* write, each at most once; the text handler's sequence is the video handler's
\* without decode, and the writer is the one of the handler's kind.
C8_StagesInOrder ==
    \A w \in Workers :
        Busy(w) =>
            /\ IsPrefix(trace[w], StagesOf(kind[w]))
            /\ pc[w] = "normalize" => trace[w] = <<>>
            /\ pc[w] = "cfg" =>
                  trace[w][Len(trace[w])] =
                      (IF kind[w] = "video_to_audio" THEN "decode" ELSE "seed")
            /\ pc[w] = "update" => trace[w][Len(trace[w])] = "set_duration"
            /\ pc[w] = "generate" => trace[w][Len(trace[w])] = "update_seq_lengths"
            /\ pc[w] \in {"generating", "stamp"} => trace[w][Len(trace[w])] = "generate"
            /\ pc[w] = "mkdir" => trace[w][Len(trace[w])] = "timestamp"
            /\ pc[w] = "write" => trace[w][Len(trace[w])] = "mkdir"
            /\ pc[w] = "done" =>
                  /\ trace[w] = StagesOf(kind[w])
                  /\ loc[w].result.suffix = Suffix(kind[w])

\* A video request and a text request have both run all their stages.
C8_Witness ==
    \E v \in Workers, w \in Workers :
        /\ pc[v] = "done" /\ kind[v] = "video_to_audio" /\ trace[v] = VideoStages
        /\ pc[w] = "done" /\ kind[w] = "text_to_audio" /\ trace[w] = TextStages

\* C9: two requests of one kind stamped in the same second get the same path; a
\* write replaces whatever artifact is at its path, so the complete artifacts on
\* disk never outnumber the requests that returned and may be fewer; a write
\* never touches an artifact of the other kind.
C9_State ==
    /\ \A v \in Workers, w \in Workers :
          (loc[v].save_path # None /\ loc[w].save_path # None) =>
              /\ (kind[v] = kind[w] /\ loc[v].time_string = loc[w].time_string)
                    => loc[v].save_path = loc[w].save_path
              /\ kind[v] # kind[w] => loc[v].save_path # loc[w].save_path
    /\ Cardinality({p \in DOMAIN files : files[p].complete}) <= ncompleted
    /\ \A p \in DOMAIN files : p.suffix = "." \o files[p].format

C9_Step ==
    \A w \in Workers :
        /\ (pc[w] = "write" /\ pc'[w] = "done") =>
              /\ files'[loc[w].save_path].by = rid[w]
              /\ loc[w].save_path \in DOMAIN files => DOMAIN files' = DOMAIN files
        /\ (pc[w] = "write" /\ pc'[w] # "write") =>
              \A p \in DOMAIN files :
                  p.suffix # Suffix(kind[w]) => files'[p] = files[p]

\* C9: in every state C9_State holds, and every step satisfies C9_Step: paths of
\* one kind and one second coincide, a write replaces the artifact at its path,
\* and artifacts of different kinds never collide.
C9_CollisionsReplace == []C9_State /\ [][C9_Step]_vars

\* Two requests have returned and one artifact is on disk.
C9_Witness ==
    /\ ncompleted = 2
    /\ Cardinality(DOMAIN files) = 1
    /\ \A p \in DOMAIN files : files[p].complete

\* C10: with requests handled one at a time, the statements up to and including
\* the decode (and the hand-over of the result or the exception) leave seq_cfg and
\* net alone; a request that failed in generate or in the write leaves them set
\* for its own duration; sampling_rate never changes; and outside the two
\* configuration statements net holds the lengths derived from seq_cfg.
C10_State ==
    /\ seq_cfg.sampling_rate = SamplingRate
    /\ (\A w \in Workers : pc[w] # "update") => net = SeqLensOf(seq_cfg)
    /\ \A w \in Workers :
          pc[w] = "failed" =>
              /\ loc[w].failed_at = "decode" => Count(trace[w], "set_duration") = 0
              /\ loc[w].failed_at \in {"generate", "write"} =>
                    /\ seq_cfg.duration = ResolvedDuration(w)
                    /\ net = LensFor(ResolvedDuration(w))

C10_Step ==
    /\ seq_cfg'.sampling_rate = seq_cfg.sampling_rate
    /\ \A w \in Workers :
          (pc[w] \in {"idle", "normalize", "failed", "done"} /\ pc'[w] # pc[w]) =>
              UNCHANGED <<seq_cfg, net>>

====
